---- MODULE Spec2Model ----
(***************************************************************************)
(* A model of pktizr (ghedo/hype): the three-worker pipeline of            *)
(* src/src/pktizr.c (main, send_cb, recv_cb, loop_cb, status_line and the  *)
(* signal handler).                                                        *)
(*                                                                         *)
(* Token counts are doubles in the source; here they are fixed-point       *)
(* integers in units of 1/TokScale token, so "tokens >= 1.0" is            *)
(* "tokens >= TokScale".                                                   *)
(***************************************************************************)
EXTENDS Integers, Sequences, FiniteSets, TLC

\* ------------------------------------------------------------------ bounds
MaxCnt == 3       \* generator alone: largest count(targets), count(ports), --count
MaxTot == 1       \* pipeline: largest pkt_count = T * P * C
MaxRate == 1      \* largest --rate (packets per second)
MaxWait == 1      \* largest --wait (seconds)
MaxFrames == 1    \* frames the raw device hands to the receiver
MaxChains == 2    \* chains one loop upcall enqueues
MaxGarbage == 1   \* values 0..MaxGarbage stand for uninitialised memory
TokScale == 2     \* fixed-point resolution of bucket.tokens
NB == 4           \* bits in a char (lpack.c line 68; CHAR_BIT, 8 in the build)
SZINT == 2        \* chars in a lua_Integer (lpack.c line 74; 8 in the build)
MAXINTSIZE == 4   \* largest width of a packed integer (lpack.c line 65; 16)
MaxOptions == 2   \* options in a format string handed to unpack
MaxData == 3      \* chars in a data string handed to unpack

Workers == {"recv", "send", "loop"}

VARIABLES
    \* struct pktizr_args
    tgt_cnt,      \* range_list_count(args->targets)
    prt_cnt,      \* range_list_count(args->ports)
    count,        \* args->count
    rate,         \* args->rate
    local_addr,   \* args->local_addr (host byte order)
    gateway_addr, \* args->gateway_addr (host byte order)
    opt_local_addr,    \* main: char *local_addr, the --local-addr argument
    opt_gateway_addr,  \* main: char *gateway_addr, the --gateway-addr argument
    route_gate_addr,   \* main: route.gate_addr (network byte order)
    if_addr,      \* the address resolve_ifname_to_ip() finds on route.if_name
    wait,         \* args->wait
    args_stop,    \* args->stop
    done,         \* args->done
    pkt_count,    \* args->pkt_count
    pkt_sent,     \* args->pkt_sent
    pkt_probe,    \* args->pkt_probe
    pkt_recv,     \* args->pkt_recv
    queue,        \* args->queue_head / queue_tail: the send queue
    mutex,        \* args-><w>_mutex: "free" or its holder
    signalled,    \* args-><w>_started has been signalled with main waiting on it
    \* file-scope state
    stop,         \* static bool stop
    handler,      \* handle_term_sig is installed
    \* control
    mainpc,       \* main's position
    mwork,        \* the worker main's START_THREAD is starting
    pc,           \* each worker's position
    \* locals
    tot,          \* status_line: tot
    tot_cnt,      \* loop_cb: tot_cnt
    i,            \* loop_cb: i
    loop_tokens,  \* loop_cb: bucket.tokens
    send_tokens,  \* send_cb: bucket.tokens
    frames,       \* frames the device has handed out so far
    \* history (read by the properties only)
    emitted,      \* (target index, port index) of every script_loop upcall
    resolv_saddr, \* saddr of the resolv_addr_to_mac() call
    resolv_daddr, \* daddr of the resolv_addr_to_mac() call
    \* raw device and ARP resolver
    netdev,       \* args->netdev: "none", "open" or "closed"
    gateway_mac,  \* args->gateway_mac
    resolv_rc,    \* main: rc of resolv_addr_to_mac()
    clock,        \* resolv_addr_to_mac: time_now() - start, in ticks
    arp_injects,  \* ARP requests the resolver has injected
    rsp,          \* resolv_addr_to_mac: what its last capture() returned
    resolv_ops,   \* resolv_addr_to_mac: the device and codec calls of its last iteration
    granted,      \* send_cb's bucket.tokens right after its last bucket_consume
    injected,     \* frames injected since send_cb's last bucket_consume
    enq_log,      \* every chain enqueued so far, in enqueue order
    sent_log,     \* the ids of the chains injected so far, in injection order
    loop_rc,      \* loop_cb: rc of the script_loop() upcall of this iteration
    tx_ops,       \* send_cb: the calls made for the chain this iteration dequeued
    rx_iter,      \* recv_cb: results and calls for the frame this iteration captured
    \* the script pack helper (lpack.c)
    format,       \* str_pack, str_unpack: the format string, argument 1
    fmt,          \* the options of the format not read yet (const char *fmt)
    data,         \* str_pack: the buffer b; str_unpack: the data string, argument 2
    arg,          \* str_pack: the integer argument
    pos,          \* str_unpack: pos
    islittle,     \* h.islittle
    maxalign,     \* h.maxalign
    pushed,       \* str_unpack: the values pushed so far
    read_end,     \* str_unpack: one past the highest offset of data read
    err,          \* the error raised, if any
    lpc           \* the helper's position

resolvVars == <<gateway_mac, resolv_rc, clock, arp_injects, rsp, resolv_ops>>
startVars == <<local_addr, gateway_addr, opt_local_addr, opt_gateway_addr,
               route_gate_addr, if_addr, resolv_saddr, resolv_daddr, netdev,
               resolvVars>>
lpackVars == <<format, fmt, data, arg, pos, islittle, maxalign, pushed, read_end,
               err, lpc>>
argsVars == <<tgt_cnt, prt_cnt, count, rate, startVars, lpackVars>>
cntVars  == <<pkt_count, pkt_sent, pkt_probe, pkt_recv>>
syncVars == <<mutex, signalled>>
mainVars == <<mainpc, mwork, tot, handler, wait>>
loopVars == <<tot_cnt, i, loop_tokens, emitted>>
sendVars == <<send_tokens, granted, injected>>
histVars == <<enq_log, sent_log, loop_rc, tx_ops, rx_iter>>
vars == <<argsVars, cntVars, syncVars, mainVars, loopVars, sendVars, histVars,
          args_stop, done, queue, stop, pc, frames>>

\* ------------------------------------------------------------ data model
\* main, line 109: args comes from malloc(); a field nothing has assigned yet
\* is Undef, and reading it yields any value.
Undef == -1
Read(x, g) == IF x = Undef THEN g ELSE x

\* A chain on the send queue: its probe flag (struct pkt.probe) and whether
\* pkt_pack() will succeed on it.
Chain == [probe : BOOLEAN, packok : BOOLEAN]

RECURSIVE Repeat(_, _)
Repeat(x, n) == IF n = 0 THEN <<>> ELSE <<x>> \o Repeat(x, n - 1)

RECURSIVE Occurrences(_, _)
Occurrences(s, x) ==
    IF s = <<>> THEN 0
    ELSE (IF Head(s) = x THEN 1 ELSE 0) + Occurrences(Tail(s), x)

Min(a, b) == IF a < b THEN a ELSE b

\* The chains a script_loop() upcall enqueues, numbered in enqueue order
\* after the `base` chains enqueued before.
Tagged(chains, base) ==
    [k \in 1..Len(chains) |->
        [probe |-> chains[k].probe, packok |-> chains[k].packok, id |-> base + k]]

\* recv_cb: no frame captured in this iteration.
NoIter == [layers |-> 0, rc |-> 0, ops |-> <<>>]

\* lpack.c, lines 78-81: nativeendian.little on the build's machine.
nativeendian == TRUE

\* No error raised.
NoError == ""

\* The helper is not running.
LpackIdle ==
    /\ format = <<>> /\ fmt = <<>> /\ data = <<>> /\ arg = 0
    /\ pos = 0 /\ islittle = nativeendian /\ maxalign = 1
    /\ pushed = <<>> /\ read_end = 0 /\ err = NoError /\ lpc = "idle"

\* What one script_loop() upcall does: its return code and the chains it
\* enqueues.
ProbeChain  == [probe |-> TRUE, packok |-> TRUE]
PlainChain  == [probe |-> FALSE, packok |-> TRUE]
BrokenChain == [probe |-> TRUE, packok |-> FALSE]

LoopOutcomes ==
    {[rc |-> -1, chains |-> <<>>]} \cup
    {[rc |-> 0, chains |-> Repeat(ProbeChain, n)] : n \in 0..MaxChains} \cup
    {[rc |-> 0, chains |-> <<c>>] : c \in {PlainChain, BrokenChain}}

\* The generator on its own: the script enqueues nothing.
QuietOutcomes == {[rc |-> -1, chains |-> <<>>], [rc |-> 0, chains |-> <<>>]}

\* ---------------------------------------------------------- token bucket
\* bucket_init(): the initial fill is any token count in [0, capacity].
BucketInit(r) == 0..(r * TokScale)

\* bucket_consume(): tokens = min(capacity, tokens + elapsed * capacity / 1e6)
\* for an elapsed time >= 0: the set of possible new token counts.
BucketConsume(tokens, r) ==
    {Min(r * TokScale, tokens + add) : add \in 0..(r * TokScale)}

\* ------------------------------------------------------------- generator
\* The target index without the remainder by tgt_cnt.
TargetIndexNoWrap(n, T, C) == n \div C

\* loop_cb, lines 372-375: the indexes handed to range_list_pick().
TargetIndex(n, T, C) == (n % T) \div C
PortIndex(n, T, C) == (n \div T) \div C

\* loop_cb, lines 350-357: per-thread initialisation.
LoopInit ==
    /\ pc["loop"] = "init"
    /\ tot_cnt' = tgt_cnt * prt_cnt * count
    /\ pkt_count' = tgt_cnt * prt_cnt * count
    /\ loop_tokens' \in BucketInit(rate)
    /\ i' = 0
    /\ pc' = [pc EXCEPT !["loop"] = "signal"]
    /\ UNCHANGED <<histVars, argsVars, pkt_sent, pkt_probe, pkt_recv, syncVars, mainVars,
                   emitted, sendVars, args_stop, done, queue, stop, frames>>

\* loop_cb, line 369: the for condition.
LoopContinues(n, total, stopped) == n < total /\ ~stopped

LoopCheck ==
    /\ pc["loop"] = "loop_check"
    /\ pc' = [pc EXCEPT !["loop"] =
                 IF LoopContinues(i, tot_cnt, args_stop) THEN "loop_consume" ELSE "exit"]
    /\ UNCHANGED <<argsVars, cntVars, syncVars, mainVars, loopVars, sendVars, histVars,
                   args_stop, done, queue, stop, frames>>

\* loop_cb, line 370.
LoopConsume ==
    /\ pc["loop"] = "loop_consume"
    /\ loop_tokens' \in BucketConsume(loop_tokens, rate)
    /\ pc' = [pc EXCEPT !["loop"] = "loop_upcall"]
    /\ UNCHANGED <<histVars, argsVars, cntVars, syncVars, mainVars, tot_cnt, i, emitted, sendVars,
                   args_stop, done, queue, stop, frames>>

\* loop_cb with a token taken for every upcall.
TokensAfterAnyUpcall(tokens, rc) == tokens - TokScale

\* loop_cb, lines 378-381: `continue` when rc < 0, else bucket.tokens--.
TokensAfterUpcall(tokens, rc) == IF rc < 0 THEN tokens ELSE tokens - TokScale

\* loop_cb, lines 372-382: pick, upcall, and the token taken when rc >= 0.
LoopUpcall(outcomes) ==
    /\ pc["loop"] = "loop_upcall"
    /\ \E o \in outcomes :
        /\ emitted' = Append(emitted, <<TargetIndex(i, tgt_cnt, count),
                                        PortIndex(i, tgt_cnt, count)>>)
        /\ queue' = queue \o Tagged(o.chains, Len(enq_log))
        /\ enq_log' = enq_log \o Tagged(o.chains, Len(enq_log))
        /\ loop_rc' = o.rc
        /\ loop_tokens' = TokensAfterUpcall(loop_tokens, o.rc)
    /\ i' = i + 1
    /\ pc' = [pc EXCEPT !["loop"] = "loop_check"]
    /\ UNCHANGED <<argsVars, cntVars, syncVars, mainVars, tot_cnt, sendVars,
                   sent_log, tx_ops, rx_iter, args_stop, done, stop, frames>>

\* -------------------------------------------------- start-up, worker side
\* The first position of a worker's main loop.
FirstPc(w) == CASE w = "loop" -> "loop_check"
                [] w = "send" -> "send_outer"
                [] w = "recv" -> "recv_check"

\* Lines 263-265, 309-311, 364-366: pthread_mutex_lock(), pthread_cond_signal()
\* and pthread_mutex_unlock() in the worker. The lock is granted only once main
\* has released the mutex inside pthread_cond_wait(); the signal is kept only
\* if main is still blocked in that wait.
WorkerSignal(w) ==
    /\ pc[w] = "signal"
    /\ mutex[w] = "free"
    /\ signalled' = [signalled EXCEPT ![w] = (mainpc = "cond_wait" /\ mwork = w)]
    /\ pc' = [pc EXCEPT ![w] = FirstPc(w)]
    /\ UNCHANGED <<histVars, argsVars, cntVars, mutex, mainVars, loopVars, sendVars,
                   args_stop, done, queue, stop, frames>>

\* ----------------------------------------------------------- transmitter
\* send_cb, lines 254-258: per-thread initialisation.
SendInit ==
    /\ pc["send"] = "init"
    /\ \E t \in BucketInit(rate) :
        /\ send_tokens' = t
        /\ granted' = t
    /\ pkt_sent' = 0
    /\ pkt_probe' = 0
    /\ injected' = 0
    /\ pc' = [pc EXCEPT !["send"] = "signal"]
    /\ UNCHANGED <<histVars, argsVars, pkt_count, pkt_recv, syncVars, mainVars, loopVars,
                   args_stop, done, queue, stop, frames>>

\* send_cb, lines 267-268: the outer loop condition, then bucket_consume().
SendOuter ==
    /\ pc["send"] = "send_outer"
    /\ IF done
       THEN /\ pc' = [pc EXCEPT !["send"] = "exit"]
            /\ UNCHANGED sendVars
       ELSE /\ \E t \in BucketConsume(send_tokens, rate) :
                /\ send_tokens' = t
                /\ granted' = t
            /\ injected' = 0
            /\ pc' = [pc EXCEPT !["send"] = "send_inner"]
    /\ tx_ops' = <<>>
    /\ UNCHANGED <<argsVars, cntVars, syncVars, mainVars, loopVars,
                   enq_log, sent_log, loop_rc, rx_iter,
                   args_stop, done, queue, stop, frames>>

\* send_cb, line 270 with the token test weakened to "tokens > 0".
SendMayDrainAnyToken(d, r, tokens) == ~d /\ (r = 0 \/ tokens > 0)

\* send_cb, line 270 without the `!args->rate` alternative.
SendMayDrainTokensOnly(d, r, tokens) == ~d /\ tokens >= TokScale

\* send_cb, line 270: the inner loop condition.
SendMayDrain(d, r, tokens) == ~d /\ (r = 0 \/ tokens >= TokScale)

SendInner ==
    /\ pc["send"] = "send_inner"
    /\ pc' = [pc EXCEPT !["send"] =
                 IF SendMayDrain(done, rate, send_tokens) THEN "send_drain"
                 ELSE "send_outer"]
    /\ tx_ops' = <<>>
    /\ UNCHANGED <<argsVars, cntVars, syncVars, mainVars, loopVars, sendVars,
                   enq_log, sent_log, loop_rc, rx_iter,
                   args_stop, done, queue, stop, frames>>

\* send_cb, line 286.
TokensAfterInject(tokens) == tokens - TokScale

\* send_cb injecting whatever pkt_pack() returned.
InjectsAlways(chain) == TRUE

\* send_cb, lines 279-283: the chain is injected unless pkt_pack() failed.
Injects(chain) == chain.packok

\* send_cb taking a token for every dequeued chain.
TokensAfterAnyDrain(tokens, chain) == TokensAfterInject(tokens)

\* send_cb, lines 279-286: the token count after the chain was handled.
TokensAfterDrain(tokens, chain) ==
    IF Injects(chain) THEN TokensAfterInject(tokens) ELSE tokens

\* send_cb, lines 271-292: the calls one iteration makes for a dequeued chain.
DrainOps(chain) ==
    <<"dequeue", "get_buf", "pack">> \o
    (IF Injects(chain) THEN <<"inject">> ELSE <<>>) \o <<"free">>

\* send_cb, lines 271-292: dequeue, pack, inject, count, free.
SendDrain ==
    /\ pc["send"] = "send_drain"
    /\ IF queue = <<>>
       THEN /\ pc' = [pc EXCEPT !["send"] = "send_outer"]
            /\ tx_ops' = <<>>
            /\ UNCHANGED <<queue, pkt_sent, pkt_probe, sendVars, sent_log>>
       ELSE /\ queue' = Tail(queue)
            /\ pc' = [pc EXCEPT !["send"] = "send_inner"]
            /\ tx_ops' = DrainOps(Head(queue))
            /\ send_tokens' = TokensAfterDrain(send_tokens, Head(queue))
            /\ IF Injects(Head(queue))
               THEN /\ pkt_sent' = pkt_sent + 1
                    /\ pkt_probe' = IF Head(queue).probe THEN pkt_probe + 1
                                    ELSE pkt_probe
                    /\ injected' = injected + 1
                    /\ sent_log' = Append(sent_log, Head(queue).id)
               ELSE UNCHANGED <<pkt_sent, pkt_probe, injected, sent_log>>
            /\ UNCHANGED granted
    /\ UNCHANGED <<argsVars, pkt_count, pkt_recv, syncVars, mainVars, loopVars,
                   enq_log, loop_rc, rx_iter, args_stop, done, stop, frames>>

\* -------------------------------------------------------------- receiver
\* recv_cb, lines 302-304: per-thread initialisation.
RecvInit ==
    /\ pc["recv"] = "init"
    /\ pkt_recv' = 0
    /\ pc' = [pc EXCEPT !["recv"] = "signal"]
    /\ UNCHANGED <<histVars, argsVars, pkt_count, pkt_sent, pkt_probe, syncVars, mainVars,
                   loopVars, sendVars, args_stop, done, queue, stop, frames>>

\* recv_cb, line 313: the loop condition.
RecvCheck ==
    /\ pc["recv"] = "recv_check"
    /\ pc' = [pc EXCEPT !["recv"] = IF done THEN "exit" ELSE "recv_capture"]
    /\ rx_iter' = NoIter
    /\ UNCHANGED <<argsVars, cntVars, syncVars, mainVars, loopVars, sendVars,
                   enq_log, sent_log, loop_rc, tx_ops,
                   args_stop, done, queue, stop, frames>>

\* recv_cb, lines 317-319: capture() timed out.
RecvNothing ==
    /\ pc["recv"] = "recv_capture"
    /\ pc' = [pc EXCEPT !["recv"] = "recv_check"]
    /\ rx_iter' = NoIter
    /\ UNCHANGED <<argsVars, cntVars, syncVars, mainVars, loopVars, sendVars,
                   enq_log, sent_log, loop_rc, tx_ops,
                   args_stop, done, queue, stop, frames>>

\* recv_cb, lines 322-323: the frame goes to script_recv() unless
\* pkt_unpack() returned 0.
Upcalls(layers) == layers # 0

\* recv_cb counting every frame handed to script_recv().
CountsAlways(rc) == TRUE

\* recv_cb, lines 326-329: pkt_recv is counted unless script_recv() failed.
Counts(rc) == rc >= 0

\* recv_cb, lines 317-335: the calls one iteration makes for a captured
\* frame of `layers` layers when script_recv() returns rc.
RecvOps(layers, rc) ==
    <<"capture", "unpack">> \o
    (IF Upcalls(layers) THEN <<"recv", "free">> ELSE <<>>) \o <<"release">>

\* What pkt_unpack() and script_recv() may return for a captured frame:
\* <<layers, rc>>.
RecvResults == (0..2) \X {-1, 0}

\* The two results that differ in what the rest of the pipeline sees: a
\* truncated frame, and a frame the script accepts.
PipeResults == {<<0, 0>>, <<2, 0>>}

\* recv_cb, lines 317-335: a frame of `layers` layers is captured, unpacked,
\* handed to script_recv (which returns rc) unless pkt_unpack returned 0,
\* and released.
RecvFrame(results) ==
    /\ pc["recv"] = "recv_capture"
    /\ frames < MaxFrames
    /\ frames' = frames + 1
    /\ \E res \in results : LET layers == res[1]  rc == res[2] IN
        /\ pkt_recv' = IF Upcalls(layers) /\ Counts(rc) THEN pkt_recv + 1
                       ELSE pkt_recv
        /\ rx_iter' = [layers |-> layers,
                       rc |-> IF Upcalls(layers) THEN rc ELSE 0,
                       ops |-> RecvOps(layers, rc)]
    /\ pc' = [pc EXCEPT !["recv"] = "recv_check"]
    /\ UNCHANGED <<argsVars, pkt_count, pkt_sent, pkt_probe, syncVars, mainVars,
                   loopVars, sendVars, enq_log, sent_log, loop_rc, tx_ops,
                   args_stop, done, queue, stop>>

\* ------------------------------------------------------------------ main
\* What a read of a pkt_* counter no worker has set yet may yield.
Garbage == 0..MaxGarbage

\* The worker START_THREAD starts after w (main, lines 221-223).
NextWorker(w) == CASE w = "recv" -> "send"
                   [] w = "send" -> "loop"
                   [] w = "loop" -> "loop"

\* START_THREAD, lines 89-92: init and lock the mutex, create the thread.
MainCreate ==
    /\ mainpc = "create"
    /\ mutex' = [mutex EXCEPT ![mwork] = "main"]
    /\ signalled' = [signalled EXCEPT ![mwork] = FALSE]
    /\ pc' = [pc EXCEPT ![mwork] = "init"]
    /\ mainpc' = "cond_enter"
    /\ UNCHANGED <<histVars, argsVars, cntVars, mwork, tot, handler, wait, loopVars, sendVars,
                   args_stop, done, queue, stop, frames>>

\* START_THREAD, line 93: pthread_cond_wait() releases the mutex and blocks.
MainCondWait ==
    /\ mainpc = "cond_enter"
    /\ mutex' = [mutex EXCEPT ![mwork] = "free"]
    /\ mainpc' = "cond_wait"
    /\ UNCHANGED <<histVars, argsVars, cntVars, signalled, mwork, tot, handler, wait, loopVars,
                   sendVars, args_stop, done, queue, stop, pc, frames>>

\* pthread_cond_wait() may return without a signal (POSIX spurious wake-up).
SpuriousWakeup == TRUE

\* START_THREAD, line 93: what lets pthread_cond_wait() return; the macro
\* waits once, with no predicate re-checked around the wait.
CondWaitReturns(sig) == sig \/ SpuriousWakeup

\* START_THREAD, lines 93-94: pthread_cond_wait() returns with the mutex
\* re-acquired, and main unlocks it.
MainCondReturn ==
    /\ mainpc = "cond_wait"
    /\ CondWaitReturns(signalled[mwork])
    /\ mutex[mwork] = "free"
    /\ mainpc' = IF mwork = "loop" THEN "setup_signals" ELSE "create"
    /\ mwork' = NextWorker(mwork)
    /\ UNCHANGED <<histVars, argsVars, cntVars, syncVars, tot, handler, wait, loopVars, sendVars,
                   args_stop, done, queue, stop, pc, frames>>

\* main, line 225, and setup_signals, lines 449-462.
MainSetupSignals ==
    /\ mainpc = "setup_signals"
    /\ handler' = TRUE
    /\ mainpc' = "status_init"
    /\ UNCHANGED <<histVars, argsVars, cntVars, syncVars, mwork, tot, wait, loopVars, sendVars,
                   args_stop, done, queue, stop, pc, frames>>

\* status_line, lines 390-394.
StatusInit ==
    /\ mainpc = "status_init"
    /\ \E g \in Garbage : tot' = Read(pkt_count, g)
    /\ stop' = FALSE
    /\ mainpc' = "status_poll"
    /\ UNCHANGED <<histVars, argsVars, cntVars, syncVars, mwork, handler, wait, loopVars, sendVars,
                   args_stop, done, queue, pc, frames>>

\* status_line, line 418: the completion test.
ScanComplete(probe, total) == probe = total

\* status_line, lines 399-419: sample the counters, leave when complete.
StatusPoll ==
    /\ mainpc = "status_poll"
    /\ \E g \in Garbage :
        mainpc' = IF ScanComplete(Read(pkt_probe, g), tot) THEN "status_reset"
                  ELSE "status_stop"
    /\ UNCHANGED <<histVars, argsVars, cntVars, syncVars, mwork, tot, handler, wait, loopVars,
                   sendVars, args_stop, done, queue, stop, pc, frames>>

\* status_line, lines 421-426: the signal flag; otherwise sleep 250 ms.
StatusStop ==
    /\ mainpc = "status_stop"
    /\ IF stop
       THEN /\ args_stop' = TRUE
            /\ mainpc' = "status_reset"
       ELSE /\ mainpc' = "status_poll"
            /\ UNCHANGED args_stop
    /\ UNCHANGED <<histVars, argsVars, cntVars, syncVars, mwork, tot, handler, wait, loopVars,
                   sendVars, done, queue, stop, pc, frames>>

\* status_line, line 429: args->stop = stop = false.
StatusReset ==
    /\ mainpc = "status_reset"
    /\ stop' = FALSE
    /\ args_stop' = FALSE
    /\ mainpc' = "status_wait"
    /\ UNCHANGED <<histVars, argsVars, cntVars, syncVars, mwork, tot, handler, wait, loopVars,
                   sendVars, done, queue, pc, frames>>

\* status_line, lines 431-438: one second per iteration of the wait loop.
StatusWait ==
    /\ mainpc = "status_wait"
    /\ IF wait > 0 /\ ~stop
       THEN /\ wait' = wait - 1
            /\ UNCHANGED mainpc
       ELSE /\ mainpc' = "status_end"
            /\ UNCHANGED wait
    /\ UNCHANGED <<histVars, argsVars, cntVars, syncVars, mwork, tot, handler, loopVars, sendVars,
                   args_stop, done, queue, stop, pc, frames>>

\* status_line, line 440.
StatusEnd ==
    /\ mainpc = "status_end"
    /\ args_stop' = TRUE
    /\ mainpc' = "join_loop"
    /\ UNCHANGED <<histVars, argsVars, cntVars, syncVars, mwork, tot, handler, wait, loopVars,
                   sendVars, done, queue, stop, pc, frames>>

\* main going on without waiting for the thread to end.
MainNoJoin(at, w, then) ==
    /\ mainpc = at
    /\ mainpc' = then
    /\ UNCHANGED <<histVars, argsVars, cntVars, syncVars, mwork, tot, handler, wait, loopVars,
                   sendVars, args_stop, done, queue, stop, pc, frames>>

\* main, lines 229, 233, 234: pthread_join().
MainJoin(at, w, then) ==
    /\ mainpc = at
    /\ pc[w] = "exit"
    /\ mainpc' = then
    /\ UNCHANGED <<histVars, argsVars, cntVars, syncVars, mwork, tot, handler, wait, loopVars,
                   sendVars, args_stop, done, queue, stop, pc, frames>>

\* main, line 231.
MainSetDone ==
    /\ mainpc = "set_done"
    /\ done' = TRUE
    /\ mainpc' = "join_recv"
    /\ UNCHANGED <<histVars, argsVars, cntVars, syncVars, mwork, tot, handler, wait, loopVars,
                   sendVars, args_stop, queue, stop, pc, frames>>

\* main, lines 236-242: close the device and return.
MainClose ==
    /\ mainpc = "close"
    /\ netdev' = "closed"
    /\ mainpc' = "exit"
    /\ UNCHANGED <<histVars, lpackVars, tgt_cnt, prt_cnt, count, rate, local_addr,
                   gateway_addr,
                   opt_local_addr, opt_gateway_addr, route_gate_addr, if_addr,
                   resolv_saddr, resolv_daddr, gateway_mac, resolv_rc, clock,
                   arp_injects, rsp, resolv_ops, cntVars, syncVars, mwork, tot, handler,
                   wait,
                   loopVars, sendVars, args_stop, done, queue, stop, pc, frames>>

\* handle_term_sig, lines 445-447: SIGHUP, SIGINT or SIGTERM is delivered.
Signal ==
    /\ handler
    /\ mainpc # "exit"
    /\ stop' = TRUE
    /\ UNCHANGED <<histVars, argsVars, cntVars, syncVars, mainVars, loopVars, sendVars,
                   args_stop, done, queue, pc, frames>>

\* --------------------------------------------------------------- start-up
\* IPv4 addresses as the four octets of a dotted quad, which is also their
\* layout in memory in network byte order. NoOpt is the NULL of an option
\* that was not given.
Quads == {<<10, 0, 0, 1>>, <<10, 0, 0, 2>>, <<10, 0, 0, 254>>}
NoOpt == <<>>

\* inet_addr(): a dotted quad to an in_addr_t in network byte order.
InetAddr(q) == q

\* ntohl(): the host-order value of four network-order octets.
Ntohl(b) == b[1] * 16777216 + b[2] * 65536 + b[3] * 256 + b[4]

\* htonl(): the four network-order octets of a host-order value.
Htonl(x) == <<x \div 16777216, (x \div 65536) % 256, (x \div 256) % 256, x % 256>>

\* What a read of an address field nothing has assigned may yield.
GarbageAddr == {0} \cup {Ntohl(q) : q \in Quads}

\* Hardware addresses.
Macs == 1..2

\* resolv.c, line 97: the timeout, 5 000 000 us, in clock ticks of 2.5 s.
Timeout == 2

\* main's rc before resolv_addr_to_mac() has returned.
NotCalled == 1

\* capture() returned NULL.
NoFrame == <<>>

\* A captured frame as pkt_unpack() sees it: the number of layers it parses
\* (outermost first, from Ethernet), the type of the layer Ethernet wraps and,
\* for ARP, the sender and target protocol addresses (network byte order) and
\* the sender hardware address.
ArpFrames == [n : 0..2, next : {"arp", "ip4"}, psrc : Quads, pdst : Quads,
              hwsrc : Macs]

\* The frames the device hands to the resolver when the rest of the start-up
\* is followed in full: one reply per sender address.
ReplyFrames == {f \in ArpFrames : /\ f.n = 2 /\ f.next = "arp" /\ f.hwsrc = 1
                                  /\ f.pdst = <<10, 0, 0, 1>>}

pipeVars == <<lpackVars, tgt_cnt, prt_cnt, count, rate, cntVars, syncVars, mwork, tot, handler,
              wait, loopVars, sendVars, histVars, args_stop, done, queue, stop, pc,
              frames>>
addrVars == <<local_addr, gateway_addr, opt_local_addr, opt_gateway_addr,
              route_gate_addr, if_addr>>

\* main, lines 187-190: routes_get_default().
MainRoutes ==
    /\ mainpc = "routes"
    /\ \E ok \in BOOLEAN :
        IF ok
        THEN /\ route_gate_addr' \in Quads
             /\ mainpc' = "gateway"
        ELSE /\ mainpc' = "failed"
             /\ UNCHANGED route_gate_addr
    /\ UNCHANGED <<local_addr, gateway_addr, opt_local_addr, opt_gateway_addr, if_addr,
                   resolv_saddr, resolv_daddr, netdev, resolvVars, pipeVars>>

\* main, lines 192-195: the gateway address, from --gateway-addr or the route.
MainGateway ==
    /\ mainpc = "gateway"
    /\ IF opt_gateway_addr # NoOpt
       THEN /\ local_addr' = Ntohl(InetAddr(opt_gateway_addr))
            /\ UNCHANGED gateway_addr
       ELSE /\ gateway_addr' = Ntohl(route_gate_addr)
            /\ UNCHANGED local_addr
    /\ mainpc' = "local_mac"
    /\ UNCHANGED <<opt_local_addr, opt_gateway_addr, route_gate_addr, if_addr,
                   resolv_saddr, resolv_daddr, netdev, resolvVars, pipeVars>>

\* main, lines 197-199: resolve_ifname_to_mac().
MainLocalMac ==
    /\ mainpc = "local_mac"
    /\ \E ok \in BOOLEAN : mainpc' = IF ok THEN "local_ip" ELSE "failed"
    /\ UNCHANGED <<startVars, pipeVars>>

\* main, lines 201-207: the local address, from --local-addr or the interface.
MainLocalAddr ==
    /\ mainpc = "local_ip"
    /\ IF opt_local_addr # NoOpt
       THEN /\ local_addr' = Ntohl(InetAddr(opt_local_addr))
            /\ mainpc' = "netdev_open"
       ELSE \E ok \in BOOLEAN :
                IF ok
                THEN /\ local_addr' = Ntohl(if_addr)
                     /\ mainpc' = "netdev_open"
                ELSE /\ mainpc' = "failed"
                     /\ UNCHANGED local_addr
    /\ UNCHANGED <<gateway_addr, opt_local_addr, opt_gateway_addr, route_gate_addr,
                   if_addr, resolv_saddr, resolv_daddr, netdev, resolvVars, pipeVars>>

\* main, lines 209-211: netdev_open().
MainOpenDev ==
    /\ mainpc = "netdev_open"
    /\ \E ok \in BOOLEAN :
        IF ok
        THEN /\ netdev' = "open"
             /\ mainpc' = "resolv"
        ELSE /\ mainpc' = "failed"
             /\ UNCHANGED netdev
    /\ UNCHANGED <<addrVars, resolv_saddr, resolv_daddr, resolvVars, pipeVars>>

\* main, lines 213-215, and resolv_addr_to_mac, lines 70-97: the call with
\* (local_mac, local_addr, gateway_mac, gateway_addr), the ARP request built,
\* packed and injected, and the clock started.
MainResolv ==
    /\ mainpc = "resolv"
    /\ \E g \in GarbageAddr : resolv_saddr' = Read(local_addr, g)
    /\ \E g \in GarbageAddr : resolv_daddr' = Read(gateway_addr, g)
    /\ arp_injects' = arp_injects + 1
    /\ clock' = 0
    /\ mainpc' = "resolv_capture"
    /\ UNCHANGED <<addrVars, netdev, gateway_mac, resolv_rc, rsp, resolv_ops, pipeVars>>

\* The reply test without the comparison of pdst (lines 120-121).
ReplyMatchesAnyTarget(f, saddr, daddr) ==
    /\ f.n >= 2
    /\ f.next = "arp"
    /\ f.psrc = Htonl(daddr)

\* resolv_addr_to_mac, lines 110-121: the captured frame is the reply looked
\* for. saddr and daddr are the arguments, in host byte order; lines 75-76
\* convert them and memcmp() compares octets.
ReplyMatches(f, saddr, daddr) ==
    /\ f.n >= 2
    /\ f.next = "arp"
    /\ f.psrc = Htonl(daddr)
    /\ f.pdst = Htonl(saddr)

\* A resolver whose clock never runs out.
TimedOutNever(elapsed) == FALSE

\* resolv_addr_to_mac, line 104: the timeout test.
TimedOut(elapsed) == elapsed > Timeout

\* resolv_addr_to_mac, lines 103-110: the device and codec calls of one
\* iteration of the polling loop that captured f: capture(), and pkt_unpack()
\* when the clock has not run out and f is a frame.
ResolvOps(f, timedout) ==
    <<"capture">> \o (IF ~timedout /\ f # NoFrame THEN <<"unpack">> ELSE <<>>)

\* resolv_addr_to_mac, lines 99-128, and main, lines 216-217: one iteration
\* of the polling loop. capture() takes dt ticks and returns a frame or NULL;
\* on timeout the resolver returns -1 and main aborts, on a matching reply
\* it copies hwsrc and returns 0, otherwise it polls again.
ResolvCapture(device) ==
    /\ mainpc = "resolv_capture"
    /\ \E f \in device \cup {NoFrame}, dt \in 0..1 :
        /\ clock' = Min(clock + dt, Timeout + 1)
        /\ rsp' = f
        /\ resolv_ops' = ResolvOps(f, TimedOut(clock'))
        /\ IF TimedOut(clock')
           THEN /\ resolv_rc' = -1
                /\ mainpc' = "failed"
                /\ UNCHANGED gateway_mac
           ELSE IF f # NoFrame /\ ReplyMatches(f, resolv_saddr, resolv_daddr)
           THEN /\ gateway_mac' = f.hwsrc
                /\ resolv_rc' = 0
                /\ mainpc' = "queue_init"
           ELSE UNCHANGED <<gateway_mac, resolv_rc, mainpc>>
    /\ UNCHANGED <<addrVars, resolv_saddr, resolv_daddr, netdev, arp_injects, pipeVars>>

\* main, line 219: queue_init().
MainQueueInit ==
    /\ mainpc = "queue_init"
    /\ queue' = <<>>
    /\ mainpc' = "create"
    /\ UNCHANGED <<histVars, argsVars, cntVars, syncVars, mwork, tot, handler, wait, loopVars,
                   sendVars, args_stop, done, stop, pc, frames>>

\* The state at main, line 187: the options parsed (lines 113-182), the
\* args fields of lines 113-122 set, everything else as malloc() left it.
StartInit ==
    /\ opt_local_addr \in Quads \cup {NoOpt}
    /\ opt_gateway_addr \in Quads \cup {NoOpt}
    /\ if_addr \in Quads
    /\ route_gate_addr = NoOpt
    /\ local_addr = Undef /\ gateway_addr = Undef
    /\ resolv_saddr = Undef /\ resolv_daddr = Undef
    /\ netdev = "none" /\ gateway_mac = Undef /\ resolv_rc = NotCalled
    /\ clock = 0 /\ arp_injects = 0 /\ rsp = NoFrame /\ resolv_ops = <<>>
    /\ tgt_cnt = 1 /\ prt_cnt = 1 /\ count = 1
    /\ rate = 0 /\ wait = 0
    /\ args_stop = FALSE /\ done = FALSE /\ stop = FALSE /\ handler = FALSE
    /\ pkt_count = Undef /\ pkt_sent = Undef
    /\ pkt_probe = Undef /\ pkt_recv = Undef
    /\ queue = <<>>
    /\ mutex = [w \in Workers |-> "free"]
    /\ signalled = [w \in Workers |-> FALSE]
    /\ mainpc = "routes" /\ mwork = "recv"
    /\ pc = [w \in Workers |-> "none"]
    /\ tot = 0 /\ tot_cnt = 0 /\ i = 0
    /\ loop_tokens = 0 /\ send_tokens = 0
    /\ frames = 0
    /\ emitted = <<>> /\ granted = 0 /\ injected = 0
    /\ enq_log = <<>> /\ sent_log = <<>> /\ loop_rc = 0
    /\ tx_ops = <<>> /\ rx_iter = NoIter
    /\ LpackIdle

StartNext ==
    \/ MainRoutes
    \/ MainGateway
    \/ MainLocalMac
    \/ MainLocalAddr
    \/ MainOpenDev
    \/ MainResolv
    \/ ResolvCapture(ReplyFrames)
    \/ MainQueueInit

StartSpec == StartInit /\ [][StartNext]_vars

\* The resolver with every frame the device may hand it; the options are
\* --local-addr 10.0.0.2 and --gateway-addr 10.0.0.254, or absent.
ResolvInit ==
    /\ StartInit
    /\ opt_local_addr \in {NoOpt, <<10, 0, 0, 2>>}
    /\ opt_gateway_addr \in {NoOpt, <<10, 0, 0, 254>>}
    /\ if_addr = <<10, 0, 0, 1>>

ResolvNext ==
    \/ MainRoutes
    \/ MainGateway
    \/ MainLocalMac
    \/ MainLocalAddr
    \/ MainOpenDev
    \/ MainResolv
    \/ ResolvCapture(ArpFrames)
    \/ MainQueueInit

ResolvSpec == ResolvInit /\ [][ResolvNext]_vars

\* The state a start-up leaves that succeeded with neither --local-addr nor
\* --gateway-addr given: the device open, the gateway resolved.
Started ==
    /\ opt_local_addr = NoOpt /\ opt_gateway_addr = NoOpt
    /\ if_addr = <<10, 0, 0, 1>> /\ route_gate_addr = <<10, 0, 0, 254>>
    /\ local_addr = Ntohl(if_addr) /\ gateway_addr = Ntohl(route_gate_addr)
    /\ resolv_saddr = local_addr /\ resolv_daddr = gateway_addr
    /\ netdev = "open" /\ gateway_mac = 1 /\ resolv_rc = 0
    /\ clock = 0 /\ arp_injects = 1
    /\ rsp = [n |-> 2, next |-> "arp", psrc |-> route_gate_addr, pdst |-> if_addr,
              hwsrc |-> 1]
    /\ resolv_ops = <<"capture", "unpack">>

\* ---------------------------------------------------------- the pipeline

\* The state at main, line 221: options parsed, args->done and args->stop
\* cleared (lines 121-122), the queue initialised, no worker created.
Init ==
    /\ Started
    /\ tgt_cnt \in 1..MaxTot /\ prt_cnt = 1 /\ count = 1
    /\ rate \in 0..MaxRate
    /\ wait \in 0..MaxWait
    /\ args_stop = FALSE /\ done = FALSE /\ stop = FALSE /\ handler = FALSE
    /\ pkt_count = Undef /\ pkt_sent = Undef
    /\ pkt_probe = Undef /\ pkt_recv = Undef
    /\ queue = <<>>
    /\ mutex = [w \in Workers |-> "free"]
    /\ signalled = [w \in Workers |-> FALSE]
    /\ mainpc = "create" /\ mwork = "recv"
    /\ pc = [w \in Workers |-> "none"]
    /\ tot = 0 /\ tot_cnt = 0 /\ i = 0
    /\ loop_tokens = 0 /\ send_tokens = 0
    /\ frames = 0
    /\ emitted = <<>> /\ granted = 0 /\ injected = 0
    /\ enq_log = <<>> /\ sent_log = <<>> /\ loop_rc = 0
    /\ tx_ops = <<>> /\ rx_iter = NoIter
    /\ LpackIdle

MainNext ==
    \/ MainCreate
    \/ MainCondWait
    \/ MainCondReturn
    \/ MainSetupSignals
    \/ StatusInit
    \/ StatusPoll
    \/ StatusStop
    \/ StatusReset
    \/ StatusWait
    \/ StatusEnd
    \/ MainJoin("join_loop", "loop", "set_done")
    \/ MainSetDone
    \/ MainJoin("join_recv", "recv", "join_send")
    \/ MainJoin("join_send", "send", "close")
    \/ MainClose

LoopNext ==
    \/ LoopInit
    \/ WorkerSignal("loop")
    \/ LoopCheck
    \/ LoopConsume
    \/ LoopUpcall(LoopOutcomes)

SendNext ==
    \/ SendInit
    \/ WorkerSignal("send")
    \/ SendOuter
    \/ SendInner
    \/ SendDrain

RecvNext ==
    \/ RecvInit
    \/ WorkerSignal("recv")
    \/ RecvCheck
    \/ RecvNothing
    \/ RecvFrame(PipeResults)

Next == MainNext \/ LoopNext \/ SendNext \/ RecvNext \/ Signal

Spec == Init /\ [][Next]_vars

\* The runs of one target and one port with --wait 0 in which the device
\* captures nothing.
LiveInit == Init /\ tgt_cnt = 1 /\ wait = 0

RecvIdleNext ==
    \/ RecvInit
    \/ WorkerSignal("recv")
    \/ RecvCheck
    \/ RecvNothing

\* Scheduling: every thread that can take a step eventually takes one, and
\* time passes, so a bucket with a positive rate is eventually refilled to a
\* whole token. The script, the codec and signals are not constrained.
Fairness ==
    /\ WF_vars(MainNext)
    /\ WF_vars(LoopNext)
    /\ WF_vars(SendNext)
    /\ WF_vars(RecvIdleNext)
    /\ SF_vars(SendOuter /\ send_tokens' >= TokScale)

\* ... in which no termination signal arrives.
QuietNext == MainNext \/ LoopNext \/ SendNext \/ RecvIdleNext

QuietSpec == LiveInit /\ [][QuietNext]_vars /\ Fairness

\* ... in which termination signals may arrive.
FairNext == QuietNext \/ Signal

FairSpec == LiveInit /\ [][FairNext]_vars /\ Fairness

\* ---------------------------------------------- the generator on its own
GenInit ==
    /\ Started
    /\ tgt_cnt \in 0..MaxCnt /\ prt_cnt \in 0..MaxCnt /\ count \in 0..MaxCnt
    /\ rate \in 0..MaxRate /\ wait = 0
    /\ args_stop = FALSE /\ done = FALSE /\ stop = FALSE /\ handler = FALSE
    /\ pkt_count = 0 /\ pkt_sent = 0 /\ pkt_probe = 0 /\ pkt_recv = 0
    /\ queue = <<>>
    /\ mutex = [w \in Workers |-> "free"]
    /\ signalled = [w \in Workers |-> w # "loop"]
    /\ mainpc = "cond_wait" /\ mwork = "loop"
    /\ pc = [w \in Workers |-> IF w = "loop" THEN "init" ELSE FirstPc(w)]
    /\ tot = 0 /\ tot_cnt = 0 /\ i = 0
    /\ loop_tokens = 0 /\ send_tokens = 0
    /\ frames = 0
    /\ emitted = <<>> /\ granted = 0 /\ injected = 0
    /\ enq_log = <<>> /\ sent_log = <<>> /\ loop_rc = 0
    /\ tx_ops = <<>> /\ rx_iter = NoIter
    /\ LpackIdle

GenNext ==
    \/ LoopInit
    \/ WorkerSignal("loop")
    \/ LoopCheck
    \/ LoopConsume
    \/ LoopUpcall(QuietOutcomes)

GenSpec == GenInit /\ [][GenNext]_vars

\* ------------------------------------------ generator and transmitter
\* loop_cb and send_cb with the script free to enqueue what it likes: the
\* receiver and the transmitter have started, main is in the generator's
\* START_THREAD, and nothing ends the scan.
TxInit ==
    /\ Started
    /\ tgt_cnt \in 1..MaxCnt /\ prt_cnt = 1 /\ count = 1
    /\ rate \in 0..MaxRate
    /\ wait = 0
    /\ args_stop = FALSE /\ done = FALSE /\ stop = FALSE /\ handler = FALSE
    /\ pkt_count = Undef /\ pkt_sent = 0 /\ pkt_probe = 0 /\ pkt_recv = 0
    /\ queue = <<>>
    /\ mutex = [w \in Workers |-> "free"]
    /\ signalled = [w \in Workers |-> w # "loop"]
    /\ mainpc = "cond_wait" /\ mwork = "loop"
    /\ pc = [w \in Workers |-> IF w = "loop" THEN "init" ELSE FirstPc(w)]
    /\ tot = 0 /\ tot_cnt = 0 /\ i = 0
    /\ loop_tokens = 0
    /\ send_tokens \in BucketInit(rate) /\ granted = send_tokens
    /\ frames = 0
    /\ emitted = <<>> /\ injected = 0
    /\ enq_log = <<>> /\ sent_log = <<>> /\ loop_rc = 0
    /\ tx_ops = <<>> /\ rx_iter = NoIter
    /\ LpackIdle

TxNext ==
    \/ LoopInit
    \/ WorkerSignal("loop")
    \/ LoopCheck
    \/ LoopConsume
    \/ LoopUpcall(LoopOutcomes)
    \/ SendOuter
    \/ SendInner
    \/ SendDrain

TxSpec == TxInit /\ [][TxNext]_vars

\* ------------------------------------------ from start-up to the barrier
\* main from line 187 to the end of the third START_THREAD, with neither
\* --local-addr nor --gateway-addr given, and the workers' initialisation.
BootInit ==
    /\ StartInit
    /\ opt_local_addr = NoOpt /\ opt_gateway_addr = NoOpt
    /\ if_addr = <<10, 0, 0, 1>>

BootNext ==
    \/ StartNext
    \/ MainCreate
    \/ MainCondWait
    \/ MainCondReturn
    \/ RecvInit
    \/ SendInit
    \/ LoopInit
    \/ \E w \in Workers : WorkerSignal(w)

\* Scheduling: main and the workers keep running, and the clock the resolver
\* reads keeps advancing.
BootFairness ==
    /\ WF_vars(BootNext)
    /\ WF_vars(ResolvCapture(ReplyFrames) /\ clock' > clock)

BootSpec == BootInit /\ [][BootNext]_vars /\ BootFairness

\* ------------------------------------------------- one probe per tuple
\* The pipeline with a script whose loop upcall enqueues exactly one chain
\* flagged probe and returns 0, pkt_pack() succeeding, and no signal.
OneProbe == {[rc |-> 0, chains |-> <<ProbeChain>>]}

OneProbeNext ==
    \/ MainNext
    \/ LoopInit
    \/ WorkerSignal("loop")
    \/ LoopCheck
    \/ LoopConsume
    \/ LoopUpcall(OneProbe)
    \/ SendNext
    \/ RecvNext

OneProbeSpec == Init /\ [][OneProbeNext]_vars

\* ------------------------------------------------------------ receiver
\* The pipeline of one target with --wait 0, a script that enqueues nothing
\* and no signal, and every result pkt_unpack() and script_recv() may give.
RxNext ==
    \/ MainNext
    \/ LoopInit
    \/ WorkerSignal("loop")
    \/ LoopCheck
    \/ LoopConsume
    \/ LoopUpcall(QuietOutcomes)
    \/ SendNext
    \/ RecvInit
    \/ WorkerSignal("recv")
    \/ RecvCheck
    \/ RecvNothing
    \/ RecvFrame(RecvResults)

RxSpec == LiveInit /\ [][RxNext]_vars

\* ------------------------------------------------------ the whole program
\* main from line 187 to its return, and the three workers.
WholeNext == StartNext \/ Next

WholeSpec == BootInit /\ [][WholeNext]_vars

\* ------------------------------------------------- the script pack helper
\* src/deps/lua-pack/lpack.c: str_pack and str_unpack. A char has NB bits
\* and a lua_Integer SZINT chars (8 and 8 in the build, fewer here); size_t
\* is as wide as lua_Integer. A format string is the sequence of its
\* options, each the option character and the numeral that follows it.
MC == 2^NB - 1                   \* lpack.c, line 71
IntMod == 2^(NB * SZINT)         \* lua_Unsigned and size_t wrap at IntMod
LuaIntegers == (-(IntMod \div 2))..(IntMod \div 2 - 1)

\* The casts (lua_Unsigned), (size_t) and (lua_Integer).
ToUnsigned(x) == x % IntMod
SizeT(x) == x % IntMod
ToSigned(u) == IF u >= IntMod \div 2 THEN u - IntMod ELSE u

Max(a, b) == IF a > b THEN a ELSE b

Option(c, num) == [c |-> c, num |-> num]

\* getoption, lines 175-210, and getnumlimit, lines 153-159: the kind and
\* the size of an option, or the error raised. Of the options with a size
\* fixed by a C type only none is modelled; 'X' is not modelled.
GetOption(o) ==
    LET limited(kind) ==
            IF o.num > MAXINTSIZE \/ o.num <= 0
            THEN [opt |-> "Knop", size |-> 0, err |-> "integral size out of limits"]
            ELSE [opt |-> kind, size |-> o.num, err |-> NoError]
    IN  CASE o.c = "i" -> limited("Kint")
          [] o.c = "I" -> limited("Kuint")
          [] o.c = "s" -> limited("Kstring")
          [] o.c = "c" -> [opt |-> "Kchar", size |-> o.num, err |-> NoError]
          [] o.c = "z" -> [opt |-> "Kzstr", size |-> 0, err |-> NoError]
          [] o.c = "x" -> [opt |-> "Kpadding", size |-> 1, err |-> NoError]
          [] o.c \in {"<", ">", "="} -> [opt |-> "Knop", size |-> 0, err |-> NoError]
          [] o.c = "!" -> [opt |-> "Knop", size |-> 0,
                           err |-> IF o.num > MAXINTSIZE \/ o.num <= 0
                                   THEN "integral size out of limits" ELSE NoError]
          [] OTHER -> [opt |-> "Knop", size |-> 0, err |-> "invalid format option"]

\* getoption, lines 203-206: the header after the option.
LittleAfter(o, little) ==
    CASE o.c = "<" -> TRUE
      [] o.c = ">" -> FALSE
      [] o.c = "=" -> nativeendian
      [] OTHER -> little

AlignAfter(o, align) == IF o.c = "!" THEN o.num ELSE align

IsPow2(a) == \E k \in 0..(NB * SZINT) : a = 2^k

\* getdetails, lines 222-240: the padding before an option of kind opt and
\* size `size` at offset total, or the error raised.
Details(opt, size, total, align) ==
    IF size <= 1 \/ opt = "Kchar"
    THEN [ntoalign |-> 0, err |-> NoError]
    ELSE LET a == Min(size, align) IN
         IF ~IsPow2(a)
         THEN [ntoalign |-> 0, err |-> "format asks for alignment not power of 2"]
         ELSE [ntoalign |-> (a - (total % a)) % a, err |-> NoError]

\* packint, lines 249-263: the `size` chars of n; C index j of buff is
\* element j + 1.
Packint(n, little, size, neg) ==
    LET Char(j) == IF neg /\ size > SZINT /\ j >= SZINT THEN MC
                   ELSE (n \div 2^(NB * j)) % 2^NB
    IN  [k \in 1..size |-> Char(IF little THEN k - 1 ELSE size - k)]

\* unpackint without the sign extension of lines 385-388.
SignExtendNone(res, size) == res

\* unpackint, lines 385-388: res = (res ^ mask) - mask.
SignExtend(res, size) ==
    LET mask == 2^(size * NB - 1)
        flipped == IF (res \div mask) % 2 = 1 THEN res - mask ELSE res + mask
    IN  ToUnsigned(flipped - mask)

RECURSIVE Gather(_, _, _, _)
\* unpackint, lines 379-383: res of the chars of C indexes limit-1 .. 0.
Gather(str, little, size, limit) ==
    IF limit = 0 THEN 0
    ELSE LET j == limit - 1
             c == str[(IF little THEN j ELSE size - 1 - j) + 1]
         IN  ToUnsigned(Gather(str, little, size, limit - 1) + c * 2^(NB * j))

\* unpackint, lines 375-398: the value of the `size` chars str, or the
\* error raised when the chars beyond a lua_Integer are not its sign.
Unpackint(str, little, size, issigned) ==
    LET limit == Min(size, SZINT)
        raw == Gather(str, little, size, limit)
        res == IF size < SZINT /\ issigned THEN SignExtend(raw, size) ELSE raw
        mask == IF ~issigned \/ ToSigned(res) >= 0 THEN 0 ELSE MC
        fits == size <= SZINT \/
                \A j \in limit..(size - 1) :
                    str[(IF little THEN j ELSE size - 1 - j) + 1] = mask
    IN  [res |-> ToSigned(res),
         err |-> IF fits THEN NoError ELSE "integer does not fit into Lua Integer"]

\* Everything but the helper's own state.
hostVars == <<tgt_cnt, prt_cnt, count, rate, startVars, cntVars, syncVars, mainVars,
              loopVars, sendVars, histVars, args_stop, done, queue, stop, pc, frames>>

\* str_pack, lines 293-360, one iteration of its loop, for the integer
\* options and the options without a size; the one argument is arg.
PackOption ==
    /\ lpc = "pack" /\ fmt # <<>>
    /\ LET o == Head(fmt)
           g == GetOption(o)
           d == Details(g.opt, g.size, Len(data), AlignAfter(o, maxalign))
           lim == 2^(g.size * NB - 1)
           overflow ==
               CASE g.opt = "Kint" /\ g.size < SZINT /\ ~(-lim <= arg /\ arg < lim)
                        -> "integer overflow"
                 [] g.opt = "Kuint" /\ g.size < SZINT /\ ~(ToUnsigned(arg) < 2^(g.size * NB))
                        -> "unsigned overflow"
                 [] OTHER -> NoError
           e == IF g.err # NoError THEN g.err
                ELSE IF d.err # NoError THEN d.err ELSE overflow
       IN  /\ islittle' = LittleAfter(o, islittle)
           /\ maxalign' = AlignAfter(o, maxalign)
           /\ fmt' = Tail(fmt)
           /\ err' = e
           /\ lpc' = IF e # NoError THEN "error" ELSE "pack"
           /\ data' = IF e = NoError /\ g.opt \in {"Kint", "Kuint"}
                      THEN data \o [k \in 1..d.ntoalign |-> 0] \o
                           Packint(ToUnsigned(arg), islittle', g.size,
                                   g.opt = "Kint" /\ arg < 0)
                      ELSE data
    /\ UNCHANGED <<format, arg, pos, pushed, read_end>>
    /\ UNCHANGED hostVars

\* str_pack, lines 362-363, returns the string; the script hands it, with
\* the same format, to str_unpack, lines 402-409.
PackReturn ==
    /\ lpc = "pack" /\ fmt = <<>>
    /\ fmt' = format
    /\ pos' = 0
    /\ islittle' = nativeendian
    /\ maxalign' = 1
    /\ lpc' = "unpack"
    /\ UNCHANGED <<format, data, arg, pushed, read_end, err>>
    /\ UNCHANGED hostVars

\* The offset of the first zero char at or after offset p; a Lua string of
\* length ld has a zero at offset ld.
ZeroAt(p) ==
    IF \E z \in p..(Len(data) - 1) : data[z + 1] = 0
    THEN CHOOSE z \in p..(Len(data) - 1) :
             data[z + 1] = 0 /\ \A y \in p..(z - 1) : data[y + 1] # 0
    ELSE Len(data)

\* str_unpack, lines 410-459: one iteration of its loop. pushed gets the
\* integer an integer option yields and the length of the string a string
\* option yields; read_end is one past the highest offset of data read.
\* When the sum of line 443 wraps, len is within ld + size of the largest
\* size_t, and lua_pushlstring() raises a memory error for such a length
\* before it reads anything.
UnpackOption ==
    /\ lpc = "unpack" /\ fmt # <<>>
    /\ LET o == Head(fmt)
           ld == Len(data)
           g == GetOption(o)
           d == Details(g.opt, g.size, pos, AlignAfter(o, maxalign))
           short == \/ d.ntoalign + g.size > IntMod - 1 - pos
                    \/ pos + d.ntoalign + g.size > ld
           at == pos + d.ntoalign
           e0 == IF g.err # NoError THEN g.err
                 ELSE IF d.err # NoError THEN d.err
                 ELSE IF short THEN "data string too short" ELSE NoError
           little == LittleAfter(o, islittle)
           int == Unpackint(SubSeq(data, at + 1, at + g.size), little, g.size,
                            g.opt = "Kint")
           len == SizeT(Unpackint(SubSeq(data, at + 1, at + g.size), little,
                                  g.size, FALSE).res)
           zlen == ZeroAt(at) - at
       IN  /\ islittle' = little
           /\ maxalign' = AlignAfter(o, maxalign)
           /\ fmt' = Tail(fmt)
           /\ IF e0 # NoError
              THEN /\ err' = e0 /\ lpc' = "error"
                   /\ UNCHANGED <<pos, pushed, read_end>>
              ELSE CASE g.opt \in {"Kint", "Kuint"} ->
                        /\ read_end' = Max(read_end, at + g.size)
                        /\ err' = int.err
                        /\ lpc' = IF int.err # NoError THEN "error" ELSE "unpack"
                        /\ pushed' = IF int.err # NoError THEN pushed
                                     ELSE Append(pushed, int.res)
                        /\ pos' = IF int.err # NoError THEN pos
                                  ELSE SizeT(at + g.size)
                     [] g.opt = "Kchar" ->
                        /\ read_end' = IF g.size > 0 THEN Max(read_end, at + g.size)
                                       ELSE read_end
                        /\ pushed' = Append(pushed, g.size)
                        /\ pos' = SizeT(at + g.size)
                        /\ UNCHANGED <<err, lpc>>
                     [] g.opt = "Kstring" ->
                        IF int.err # NoError
                        THEN /\ read_end' = Max(read_end, at + g.size)
                             /\ err' = int.err /\ lpc' = "error"
                             /\ UNCHANGED <<pos, pushed>>
                        ELSE IF ~(SizeT(at + len + g.size) <= ld)
                        THEN /\ read_end' = Max(read_end, at + g.size)
                             /\ err' = "data string too short" /\ lpc' = "error"
                             /\ UNCHANGED <<pos, pushed>>
                        ELSE IF at + len + g.size >= IntMod
                        THEN /\ read_end' = Max(read_end, at + g.size)
                             /\ err' = "not enough memory" /\ lpc' = "error"
                             /\ UNCHANGED <<pos, pushed>>
                        ELSE /\ read_end' = Max(read_end, at + g.size + len)
                             /\ pushed' = Append(pushed, len)
                             /\ pos' = SizeT(SizeT(at + len) + g.size)
                             /\ UNCHANGED <<err, lpc>>
                     [] g.opt = "Kzstr" ->
                        /\ read_end' = Max(read_end, ZeroAt(at) + 1)
                        /\ pushed' = Append(pushed, zlen)
                        /\ pos' = SizeT(at + zlen + 1)
                        /\ UNCHANGED <<err, lpc>>
                     [] OTHER ->
                        /\ pos' = SizeT(at + g.size)
                        /\ UNCHANGED <<pushed, read_end, err, lpc>>
    /\ UNCHANGED <<format, data, arg>>
    /\ UNCHANGED hostVars

\* str_unpack, lines 460-461: the next position is pushed last.
UnpackReturn ==
    /\ lpc = "unpack" /\ fmt = <<>>
    /\ pushed' = Append(pushed, pos + 1)
    /\ lpc' = "done"
    /\ UNCHANGED <<format, fmt, data, arg, pos, islittle, maxalign, read_end, err>>
    /\ UNCHANGED hostVars

\* The pipeline's variables while a script uses the helper on its own.
PipelineIdle ==
    /\ Started
    /\ tgt_cnt = 0 /\ prt_cnt = 0 /\ count = 0 /\ rate = 0 /\ wait = 0
    /\ args_stop = FALSE /\ done = FALSE /\ stop = FALSE /\ handler = FALSE
    /\ pkt_count = 0 /\ pkt_sent = 0 /\ pkt_probe = 0 /\ pkt_recv = 0
    /\ queue = <<>>
    /\ mutex = [w \in Workers |-> "free"]
    /\ signalled = [w \in Workers |-> TRUE]
    /\ mainpc = "status_poll" /\ mwork = "loop"
    /\ pc = [w \in Workers |-> FirstPc(w)]
    /\ tot = 0 /\ tot_cnt = 0 /\ i = 0
    /\ loop_tokens = 0 /\ send_tokens = 0
    /\ frames = 0
    /\ emitted = <<>> /\ granted = 0 /\ injected = 0
    /\ enq_log = <<>> /\ sent_log = <<>> /\ loop_rc = 0
    /\ tx_ops = <<>> /\ rx_iter = NoIter

\* pack(fmt, v) followed by unpack(fmt, s) on its result: fmt is '<' or '>'
\* and then 'i' or 'I' with a width of 1..MAXINTSIZE; v is any lua_Integer.
IntFormats ==
    {<<Option(e, 0), Option(k, n)>> : e \in {"<", ">"}, k \in {"i", "I"},
                                      n \in 1..MAXINTSIZE}

PackInit ==
    /\ PipelineIdle
    /\ format \in IntFormats /\ fmt = format
    /\ arg \in LuaIntegers
    /\ data = <<>> /\ pos = 0 /\ islittle = nativeendian /\ maxalign = 1
    /\ pushed = <<>> /\ read_end = 0 /\ err = NoError /\ lpc = "pack"

PackNext == PackOption \/ PackReturn \/ UnpackOption \/ UnpackReturn

PackSpec == PackInit /\ [][PackNext]_vars

\* unpack(fmt, s) for the formats of at most MaxOptions options out of
\* UnpackOptions and the data strings of at most MaxData chars out of
\* DataChars.
UnpackOptions ==
    {Option("i", 1), Option("I", SZINT + 1), Option("s", 1), Option("s", SZINT),
     Option("c", 0), Option("c", 2), Option("z", 0), Option("x", 0),
     Option(">", 0), Option("!", 2), Option("i", 2)}

DataChars == {0, 1, MC - 1, MC}

SeqsUpTo(S, n) == UNION {[1..k -> S] : k \in 0..n}

UnpackInit ==
    /\ PipelineIdle
    /\ format \in SeqsUpTo(UnpackOptions, MaxOptions) /\ fmt = format
    /\ data \in SeqsUpTo(DataChars, MaxData)
    /\ arg = 0
    /\ pos = 0 /\ islittle = nativeendian /\ maxalign = 1
    /\ pushed = <<>> /\ read_end = 0 /\ err = NoError /\ lpc = "unpack"

UnpackNext == UnpackOption \/ UnpackReturn

UnpackSpec == UnpackInit /\ [][UnpackNext]_vars

\* ================================================================ claims
\* C1: with T, P, C >= 1 and args.stop never set, when the generator has
\* finished every (target, port) pair has been passed to script_loop exactly
\* C times.
C1_EachPairCountTimes ==
    (pc["loop"] = "exit" /\ tgt_cnt >= 1 /\ prt_cnt >= 1 /\ count >= 1) =>
        \A t \in 0..(tgt_cnt - 1), p \in 0..(prt_cnt - 1) :
            Occurrences(emitted, <<t, p>>) = count

\* C2: the k-th upcall (from 0) is for target (k / C) mod T and port
\* k / (C * T): the C duplicates of a pair are consecutive, targets vary
\* fastest, and a port's targets all come before the next port.
C2_ClaimedOrder ==
    \A k \in 1..Len(emitted) :
        emitted[k] = <<((k - 1) \div count) % tgt_cnt,
                       (k - 1) \div (count * tgt_cnt)>>

\* The process has shut down: done is set, every worker has returned and
\* main has joined them all.
ShutDown ==
    /\ done
    /\ \A w \in Workers : pc[w] = "exit"
    /\ mainpc \in {"close", "exit"}

\* A worker has passed its pthread_cond_signal().
Passed(w) == pc[w] \notin {"none", "init", "signal"}

\* The start-up barrier did its job: every worker signalled while main was
\* waiting for it, and status_line has, or will, read the pkt_count the
\* generator set.
Settled ==
    /\ \A w \in Workers : Passed(w) /\ signalled[w]
    /\ mainpc \in {"create", "cond_enter", "cond_wait", "setup_signals", "status_init"}
         \/ tot = pkt_count

\* C3: with no signal, once the generator has processed all pkt_count tuples
\* the status loop eventually ends and the process shuts down.
C3_CompletionLive ==
    (Settled /\ pc["loop"] = "exit" /\ i = tot_cnt) ~> ShutDown

\* C4: main does not go past a worker's START_THREAD before that worker has
\* signalled, so once main is past the three of them (in status_line) every
\* worker has passed its signal point and the four counters are initialised,
\* pkt_count to T * P * C.
C4_StartupBarrier ==
    /\ mwork # "recv" => Passed("recv")
    /\ mwork = "loop" => Passed("send")
    /\ mainpc \notin {"create", "cond_enter", "cond_wait"} =>
          /\ Passed("loop")
          /\ pkt_count = tgt_cnt * prt_cnt * count
          /\ pkt_sent # Undef /\ pkt_probe # Undef /\ pkt_recv # Undef

\* C5: once the status loop has set args.stop it stays true until the
\* generator, still in its enumeration, has exited.
C5_StopStaysSet ==
    [][(Settled /\ args_stop /\ pc["loop"] # "exit") => args_stop']_vars

\* C6: every delivered termination signal (the handler sets stop) eventually
\* leads to the process shutting down.
C6_SignalLive == (Settled /\ stop) ~> ShutDown

\* C7 as claimed: done implies the generator has exited, done is never reset,
\* and once done is true the transmitter performs no dequeue (its send_drain
\* step) and the receiver no capture (its recv_capture step).
C7_NoDequeueAfterDone ==
    /\ [](done => pc["loop"] = "exit")
    /\ [][done => done']_vars
    /\ [][done => /\ (pc["send"] = "send_drain" => pc'["send"] = "send_drain")
                  /\ (pc["recv"] = "recv_capture" => pc'["recv"] = "recv_capture")]_vars

\* C7 as amended: done implies the generator has exited, done is never reset,
\* once done is true every loop-condition check of the transmitter and of the
\* receiver fails (the inner check sends the transmitter to its outer check,
\* the outer check and the receiver's check end the thread), so each performs
\* at most the one dequeue or capture whose check came before done was set,
\* and main passes the joins only after both have exited.
C7_ShutdownOrder ==
    /\ [](done => pc["loop"] = "exit")
    /\ [](mainpc \in {"close", "exit"} => \A w \in Workers : pc[w] = "exit")
    /\ [][done => done']_vars
    /\ [][done => /\ (pc["send"] = "send_inner" =>
                         pc'["send"] \in {"send_inner", "send_outer"})
                  /\ (pc["send"] = "send_outer" =>
                         pc'["send"] \in {"send_outer", "exit"})
                  /\ (pc["recv"] = "recv_check" =>
                         pc'["recv"] \in {"recv_check", "exit"})]_vars

\* C7 witness: done was set while the transmitter was between its inner
\* check and the dequeue, with a chain still queued.
C7_Witness ==
    done /\ pc["send"] = "send_drain" /\ queue # <<>> /\ pc["recv"] = "recv_capture"

\* C8: with rate > 0 the transmitter is at its dequeue only while it holds at
\* least one token, every injected packet costs exactly one token, so its
\* tokens never go negative and the packets injected since the last
\* bucket_consume() number at most floor(tokens granted by it).
C8_TransmitterGated ==
    rate > 0 =>
        /\ pc["send"] = "send_drain" => send_tokens >= TokScale
        /\ send_tokens = granted - injected * TokScale
        /\ send_tokens >= 0
        /\ injected <= granted \div TokScale

\* C8 witness: the transmitter has injected a packet and is back at
\* bucket_consume() with a chain still queued: the bucket, not the queue,
\* stopped it.
C8_Witness ==
    /\ rate > 0 /\ injected >= 1 /\ queue # <<>>
    /\ pc["send"] = "send_outer" /\ ~done

\* C9: with rate > 0 the generator is at its upcall only while it holds at
\* least one token, so its tokens never go negative.
C9_GeneratorGated ==
    rate > 0 =>
        /\ pc["loop"] = "loop_upcall" => loop_tokens >= TokScale
        /\ loop_tokens >= 0

\* C10: when --gateway-addr G is given, the resolver is called with target
\* address G, args.gateway_addr is G, and args.local_addr is what it is
\* without the option (--local-addr, else the interface's address).
C10_GatewayOverride ==
    (resolv_daddr # Undef /\ opt_gateway_addr # NoOpt) =>
        /\ resolv_daddr = Ntohl(InetAddr(opt_gateway_addr))
        /\ gateway_addr = Ntohl(InetAddr(opt_gateway_addr))
        /\ local_addr = IF opt_local_addr # NoOpt
                        THEN Ntohl(InetAddr(opt_local_addr))
                        ELSE Ntohl(if_addr)

\* C11: the resolver returns 0 exactly when a frame captured before the
\* timeout unpacks to a chain with an ARP node whose psrc is the gateway IP
\* and whose pdst is the local IP, and gateway_mac is then that node's hwsrc;
\* while it is still polling, the frame it captured last was no such reply,
\* and it returns -1 only after the timeout.
C11_ArpReplyMatching ==
    LET HasArp(f) == f # NoFrame /\ f.n >= 2 /\ f.next = "arp"
        IsReply(f) == /\ HasArp(f)
                      /\ Ntohl(f.psrc) = resolv_daddr
                      /\ Ntohl(f.pdst) = resolv_saddr
    IN  /\ resolv_rc = 0 => /\ IsReply(rsp) /\ clock <= Timeout
                            /\ gateway_mac = rsp.hwsrc
        /\ mainpc = "resolv_capture" => ~IsReply(rsp) /\ gateway_mac = Undef
        /\ resolv_rc = -1 => clock > Timeout /\ gateway_mac = Undef

\* C11 witness: with --local-addr given, the resolver has polled until the
\* last tick before the timeout and then accepted a reply, from hardware
\* address 2.
C11_Witness ==
    /\ resolv_rc = 0 /\ clock = Timeout /\ gateway_mac = 2
    /\ opt_local_addr # NoOpt /\ opt_gateway_addr = NoOpt

\* C12: the resolver injects its request exactly once and always returns;
\* it returns 0 only within the timeout, and when it returns -1 gateway_mac
\* is as it was, main has aborted and no worker thread exists.
C12_ResolverTimeout ==
    /\ [](arp_injects <= 1)
    /\ [](mainpc = "resolv_capture" \/ resolv_rc # NotCalled => arp_injects = 1)
    /\ [](resolv_rc = 0 => clock <= Timeout)
    /\ [](resolv_rc = -1 => /\ clock > Timeout
                            /\ gateway_mac = Undef
                            /\ mainpc = "failed"
                            /\ \A w \in Workers : pc[w] = "none")
    /\ (mainpc = "resolv_capture") ~> (resolv_rc \in {0, -1})

\* C12 witness: the resolver's last capture returned nothing after the
\* timeout, the resolver returned -1 and main aborted.
C12_Witness ==
    resolv_rc = -1 /\ rsp = NoFrame /\ arp_injects = 1 /\ mainpc = "failed"

\* C13: the frames injected so far are, in this order, the chains dequeued
\* so far on which pkt_pack() succeeded: a subsequence of the enqueue
\* sequence in the same relative order, the chains still queued being the
\* rest of that sequence.
C13_TransmitOrder ==
    LET Dequeued == Len(enq_log) - Len(queue)
        Packed == SelectSeq(SubSeq(enq_log, 1, Dequeued), LAMBDA c : c.packok)
    IN  /\ \A k \in 1..Len(enq_log) : enq_log[k].id = k
        /\ queue = SubSeq(enq_log, Dequeued + 1, Len(enq_log))
        /\ sent_log = [k \in 1..Len(Packed) |-> Packed[k].id]
        /\ \A j, k \in 1..Len(sent_log) : j < k => sent_log[j] < sent_log[k]

\* C13 witness: the first chain enqueued failed to pack and the two after
\* it were injected.
C13_Witness == Len(sent_log) >= 2 /\ sent_log[1] = 2 /\ sent_log[2] = 3

\* C14: a worker exists only once the device is open and the resolver has
\* returned 0; the resolver and every worker that has not returned run with
\* the device open, so get_buf, inject, capture and release happen on an
\* open device; and the device is closed only when main has joined the three
\* workers, all of which have returned.
C14_DeviceLifecycle ==
    /\ (\E w \in Workers : pc[w] # "none") => netdev # "none" /\ resolv_rc = 0
    /\ mainpc \in {"resolv", "resolv_capture"} => netdev = "open"
    /\ (\E w \in Workers : pc[w] \notin {"none", "exit"}) => netdev = "open"
    /\ netdev = "closed" <=> mainpc = "exit"
    /\ mainpc \in {"close", "exit"} => \A w \in Workers : pc[w] = "exit"

\* C14 witness: the device was used by the resolver, the transmitter and the
\* receiver, and is closed.
C14_Witness ==
    netdev = "closed" /\ arp_injects = 1 /\ pkt_sent >= 1 /\ frames >= 1

\* C15: with one probe chain per tuple, pack succeeding and no signal, the
\* run has ended (every worker joined) only with exactly pkt_count frames
\* injected and pkt_sent = pkt_probe = pkt_count.
C15_OneProbePerTuple ==
    ShutDown =>
        /\ Len(sent_log) = pkt_count
        /\ pkt_sent = pkt_count
        /\ pkt_probe = pkt_count

\* The same when the start-up barrier did its job (every worker signalled
\* while main was waiting for it): this holds of OneProbeSpec.
OneProbeWhenBarrierHeld ==
    (ShutDown /\ \A w \in Workers : signalled[w]) =>
        /\ Len(sent_log) = pkt_count
        /\ pkt_sent = pkt_count
        /\ pkt_probe = pkt_count

\* A step of the transmitter, of the receiver.
SendStep == pc'["send"] # pc["send"]
RecvStep == pc'["recv"] # pc["recv"]

\* C16: once main is past the three START_THREADs, pkt_sent, pkt_probe and
\* pkt_recv hold counts, each step leaves them or adds one, and only a step
\* of the transmitter changes pkt_sent or pkt_probe, only a step of the
\* receiver pkt_recv.
C16_CountersMonotonic ==
    [][mainpc \notin {"create", "cond_enter", "cond_wait"} =>
          /\ pkt_sent # Undef /\ pkt_probe # Undef /\ pkt_recv # Undef
          /\ pkt_sent' \in {pkt_sent, pkt_sent + 1}
          /\ pkt_probe' \in {pkt_probe, pkt_probe + 1}
          /\ pkt_recv' \in {pkt_recv, pkt_recv + 1}
          /\ (pkt_sent' # pkt_sent \/ pkt_probe' # pkt_probe) => SendStep
          /\ pkt_recv' # pkt_recv => RecvStep]_vars

\* The same from the point where the transmitter, respectively the receiver,
\* has passed its pthread_cond_signal(): this holds of Spec.
CountersOnceWorkerStarted ==
    [][/\ Passed("send") =>
             /\ pkt_sent # Undef /\ pkt_probe # Undef
             /\ pkt_sent' \in {pkt_sent, pkt_sent + 1}
             /\ pkt_probe' \in {pkt_probe, pkt_probe + 1}
             /\ (pkt_sent' # pkt_sent \/ pkt_probe' # pkt_probe) => SendStep
       /\ Passed("recv") =>
             /\ pkt_recv # Undef
             /\ pkt_recv' \in {pkt_recv, pkt_recv + 1}
             /\ pkt_recv' # pkt_recv => RecvStep]_vars

\* C17: when the transmitter dequeues a chain on which pkt_pack() fails, that
\* iteration calls dequeue, get_buf, pack and free (once) and not inject,
\* leaves pkt_sent, pkt_probe and the token count as they were, and goes back
\* to the inner loop condition with the rest of the queue.
C17_PackFailureLocal ==
    [][(/\ pc["send"] = "send_drain" /\ SendStep
        /\ queue # <<>> /\ ~Head(queue).packok) =>
          /\ tx_ops' = <<"dequeue", "get_buf", "pack", "free">>
          /\ pkt_sent' = pkt_sent /\ pkt_probe' = pkt_probe
          /\ send_tokens' = send_tokens
          /\ sent_log' = sent_log
          /\ queue' = Tail(queue)
          /\ pc'["send"] = "send_inner"]_vars

\* C17 witness: a chain has just failed to pack while the transmitter held
\* tokens under a positive rate, and another chain is queued behind it.
C17_Witness ==
    /\ tx_ops = <<"dequeue", "get_buf", "pack", "free">>
    /\ pc["send"] = "send_inner" /\ queue # <<>>
    /\ rate > 0 /\ send_tokens >= TokScale

\* The receiver has just handled a captured frame.
Captured == RecvStep /\ pc["recv"] = "recv_capture" /\ rx_iter'.ops # <<>>

\* C18: whenever pkt_unpack() returns 0 or 1 layers for a captured frame,
\* the receiver calls capture, unpack and release only (no recv upcall) and
\* leaves pkt_recv as it was.
C18_ShortUnpack ==
    [][(Captured /\ rx_iter'.layers < 2) =>
          /\ rx_iter'.ops = <<"capture", "unpack", "release">>
          /\ pkt_recv' = pkt_recv]_vars

\* Position of the call `op` in the calls of the iteration, 0 if absent.
Pos(ops, op) ==
    IF \E k \in 1..Len(ops) : ops[k] = op
    THEN CHOOSE k \in 1..Len(ops) : ops[k] = op
    ELSE 0

\* C19: for every captured frame the iteration calls capture once, first,
\* and release once, last; a recv upcall, if made, is followed by the free of
\* the chain, both before release; pkt_recv goes up by one exactly when the
\* upcall was made and returned >= 0; and the receiver goes back to its loop
\* condition whatever the upcall returned.
C19_CaptureRelease ==
    [][Captured =>
          LET ops == rx_iter'.ops IN
          /\ Occurrences(ops, "capture") = 1 /\ ops[1] = "capture"
          /\ Occurrences(ops, "release") = 1 /\ ops[Len(ops)] = "release"
          /\ Occurrences(ops, "recv") <= 1
          /\ Occurrences(ops, "free") = Occurrences(ops, "recv")
          /\ Pos(ops, "recv") > 0 =>
                 /\ Pos(ops, "recv") < Pos(ops, "free")
                 /\ Pos(ops, "free") < Pos(ops, "release")
          /\ pkt_recv' = IF Pos(ops, "recv") > 0 /\ rx_iter'.rc >= 0
                         THEN pkt_recv + 1 ELSE pkt_recv
          /\ pkt_recv' \in {pkt_recv, pkt_recv + 1}
          /\ pc'["recv"] = "recv_check"]_vars

\* C19 witness: the script's recv upcall returned < 0 for a frame, the frame
\* was released and the receiver is back at its loop condition, not done.
C19_Witness ==
    /\ rx_iter.rc < 0 /\ rx_iter.ops = <<"capture", "unpack", "recv", "free", "release">>
    /\ pc["recv"] = "recv_check" /\ ~done /\ pkt_recv = 0

\* C20: every loop upcall moves the generator to the next index, each index
\* gets one upcall (no retry), and the upcall costs no token when it
\* returned < 0 and exactly one token when it returned >= 0.
C20_SkippedTuple ==
    /\ [](Len(emitted) = i)
    /\ [][(pc["loop"] = "loop_upcall" /\ pc'["loop"] # "loop_upcall") =>
             /\ i' = i + 1
             /\ pc'["loop"] = "loop_check"
             /\ loop_rc' < 0 => loop_tokens' = loop_tokens
             /\ loop_rc' >= 0 => loop_tokens' = loop_tokens - TokScale]_vars

\* C20 witness: under a positive rate the upcall for the second index has
\* returned < 0 and the generator is about to go on to a third.
C20_Witness ==
    /\ rate > 0 /\ loop_rc < 0 /\ i = 2 /\ tot_cnt > 2
    /\ pc["loop"] = "loop_check" /\ ~args_stop

\* C21: every chain the transmitter dequeues is freed exactly once, and every
\* chain enqueued is dequeued before the transmitter exits: no chain remains
\* in the send queue when the transmitter has exited.
C21_ChainsReleased ==
    /\ [][(pc["send"] = "send_drain" /\ SendStep /\ queue # <<>>) =>
             Occurrences(tx_ops', "free") = 1]_vars
    /\ [](pc["send"] = "exit" => queue = <<>>)

\* C22: with rate = 0 the transmitter's inner loop condition fails only when
\* done is set, whatever its token count; a dequeue goes back to the outer
\* loop only on an empty queue, and otherwise takes the head of the queue,
\* injects it if it packed, and returns to the inner loop condition.
C22_UnlimitedRate ==
    [][rate = 0 =>
          /\ (pc["send"] = "send_inner" /\ SendStep) =>
                 pc'["send"] = IF done THEN "send_outer" ELSE "send_drain"
          /\ (pc["send"] = "send_drain" /\ SendStep) =>
                 IF queue = <<>>
                 THEN pc'["send"] = "send_outer" /\ sent_log' = sent_log
                 ELSE /\ pc'["send"] = "send_inner"
                      /\ queue' = Tail(queue)
                      /\ Head(queue).packok =>
                             sent_log' = Append(sent_log, Head(queue).id)]_vars

\* C22 witness: with rate = 0 and a negative token count after an injection,
\* the transmitter has passed its inner loop condition again and is about
\* to dequeue the next chain.
C22_Witness ==
    /\ rate = 0 /\ send_tokens < 0 /\ Len(sent_log) >= 1
    /\ pc["send"] = "send_drain" /\ queue # <<>> /\ ~done

\* C23: whenever the resolver's capture() returned a frame, the iteration
\* calls release() once, as its last device call, before the resolver calls
\* capture() again or returns (on match, mismatch, short unpack and timeout).
C23_ResolverRelease ==
    rsp # NoFrame =>
        /\ Occurrences(resolv_ops, "release") = 1
        /\ resolv_ops[Len(resolv_ops)] = "release"

\* C24: in every state in which main is past the three START_THREADs (the
\* states in which status_line reads the counters), pkt_probe <= pkt_sent and
\* pkt_sent is at most the number of chains enqueued so far; a counter
\* nothing has assigned reads as any value.
C24_ProbeSentEnqueued ==
    mainpc \notin {"create", "cond_enter", "cond_wait"} =>
        \A gs, gp \in Garbage :
            /\ Read(pkt_probe, gp) <= Read(pkt_sent, gs)
            /\ Read(pkt_sent, gs) <= Len(enq_log)

\* The same from the point where the transmitter has passed its
\* pthread_cond_signal(), with pkt_sent bounded by the chains dequeued: this
\* holds of Spec.
ProbeSentOnceTransmitterStarted ==
    Passed("send") =>
        /\ pkt_probe # Undef /\ pkt_sent # Undef
        /\ pkt_probe <= pkt_sent
        /\ pkt_sent <= Len(enq_log) - Len(queue)

\* C25: for all T, P, C >= 0 every pick the generator makes is on targets
\* with an index in [0, T) and on ports with an index in [0, P); the
\* generator is at its loop body only with T, P and C all non-zero, so it
\* never divides or takes a remainder by zero; it makes at most T * P * C
\* upcalls; and when T, P or C is 0 it makes none and pkt_count is 0.
C25_IndexSafety ==
    /\ \A k \in 1..Len(emitted) :
          /\ emitted[k][1] >= 0 /\ emitted[k][1] < tgt_cnt
          /\ emitted[k][2] >= 0 /\ emitted[k][2] < prt_cnt
    /\ pc["loop"] \in {"loop_consume", "loop_upcall"} =>
          /\ tgt_cnt # 0 /\ prt_cnt # 0 /\ count # 0
          /\ i < tgt_cnt * prt_cnt * count
    /\ Len(emitted) <= tgt_cnt * prt_cnt * count
    /\ (pc["loop"] # "init" /\ (tgt_cnt = 0 \/ prt_cnt = 0 \/ count = 0)) =>
          pkt_count = 0 /\ emitted = <<>>

\* C25 witness: the generator has gone through all T * P * C indexes of the
\* largest run, MaxCnt targets, MaxCnt ports and --count MaxCnt.
C25_Witness ==
    /\ tgt_cnt = MaxCnt /\ prt_cnt = MaxCnt /\ count = MaxCnt
    /\ pc["loop"] = "exit" /\ Len(emitted) = MaxCnt * MaxCnt * MaxCnt

\* v can be written in n chars: as a two's complement number for 'i', as an
\* unsigned number for 'I'; v is a lua_Integer.
Representable(k, n, v) ==
    IF k = "i" THEN -(2^(n * NB - 1)) <= v /\ v < 2^(n * NB - 1)
    ELSE 0 <= v /\ v < 2^(n * NB)

RECURSIVE LittleValue(_)
\* The number whose chars, least significant first, are s.
LittleValue(s) == IF s = <<>> THEN 0 ELSE Head(s) + 2^NB * LittleValue(Tail(s))

Reverse(s) == [k \in 1..Len(s) |-> s[Len(s) + 1 - k]]

\* C26: for every width n in 1..MAXINTSIZE, '<' or '>', 'i' or 'I' and
\* every lua_Integer v representable in n chars, pack raises no error and
\* emits exactly n chars, which are v modulo 2^(n * NB) with the least
\* significant char first for '<' and last for '>', and unpack of them with
\* the same format returns v and the next position n + 1.
C26_IntRoundTrip ==
    LET e == format[1].c
        k == format[2].c
        n == format[2].num
    IN  (format \in IntFormats /\ Representable(k, n, arg)) =>
            /\ err = NoError
            /\ lpc \in {"unpack", "done"} =>
                  /\ Len(data) = n
                  /\ LittleValue(IF e = "<" THEN data ELSE Reverse(data))
                         = arg % 2^(n * NB)
                  /\ data[IF e = "<" THEN 1 ELSE n] = arg % 2^NB
            /\ lpc = "done" => pushed = <<arg, n + 1>> /\ read_end = n

\* C26 witness: a negative number went through '>' and a signed width
\* smaller than a lua_Integer, and has come back.
C26_Witness ==
    /\ format = <<Option(">", 0), Option("i", 1)>> /\ arg = -3
    /\ lpc = "done" /\ pushed = <<-3, 2>> /\ data = <<MC - 2>>

\* C27: for every format and every data string of length ld, unpack either
\* raises 'data string too short', or it has read only chars at offsets in
\* [0, ld) and, when it returns, its next position is in [1, ld + 1].
C27_UnpackBounds ==
    \/ err = "data string too short"
    \/ /\ read_end <= Len(data)
       /\ lpc = "done" => /\ pushed[Len(pushed)] >= 1
                          /\ pushed[Len(pushed)] <= Len(data) + 1

\* The same for the formats without the 'z' option: this holds of
\* UnpackSpec.
UnpackBoundsWithoutZ ==
    (\A k \in 1..Len(format) : format[k].c # "z") =>
        /\ read_end <= Len(data)
        /\ lpc = "done" => /\ pushed[Len(pushed)] >= 1
                           /\ pushed[Len(pushed)] <= Len(data) + 1

====
